---- MODULE Spec2Model ----
(***************************************************************************)
(* A model of debarchive's Archive (src/src/archive.rs): the construction  *)
(* scan of the outer ar container, the stream opener, the tar walker and   *)
(* the control-file parser.                                                *)
(*                                                                         *)
(* Conventions.  Option<T> is a set with at most one element ({} is None,  *)
(* {x} is Some(x)).  A string the code inspects character by character (a  *)
(* control line, a tar entry's path) is a tuple of one-character strings.  *)
(* An io::Error is a record [kind, msg] whose msg is the tuple of the      *)
(* pieces format! concatenates.                                            *)
(***************************************************************************)
EXTENDS Integers, Sequences, FiniteSets, TLC

VARIABLES path, openable, container, controlTar, dataTar, dest,
          handle, newResult, last, after

\* path, openable, container, controlTar, dataTar: the .deb file on disk;
\* dest: the directory the extractions unpack into; handle: the Archive;
\* newResult: what Archive::new returned; last: the latest read operation,
\* its visitor and its result; after: a history variable, how the latest
\* read operation relates to the one before it.
vars == <<path, openable, container, controlTar, dataTar, dest,
          handle, newResult, last, after>>

(***************************************************************************)
(* Bounds of the model.                                                    *)
(***************************************************************************)
\* Longest explicit member list behind a short run of other members.
MaxTail == 3
\* Longest explicit member list behind a run of about 2^8 other members.
MaxBigTail == 2
\* Longest run of other members in front of a short container.
MaxPad == 1

(***************************************************************************)
(* Program constants.                                                      *)
(***************************************************************************)
\* The largest value of the u8 ordinal of Archive.data.0 / Archive.control.0.
U8Max == 255

(***************************************************************************)
(* Codec and the member identifiers matched by Archive::new.               *)
(***************************************************************************)
Codec == {"Xz", "Gz", "Zstd"}

\* The identifiers a container of the model may hold: the six recognised
\* ones and two that are not.
Identifiers == {"data.tar.xz", "data.tar.gz", "data.tar.zst",
                "control.tar.xz", "control.tar.gz", "control.tar.zst",
                "debian-binary", "data.tar.bz2"}

\* An entry_result that is Err(_).
ERR == "<err>"

\* The match of Archive::new on entry.header().identifier(): the slot and
\* the codec of a recognised identifier, {} for the `_` arm.
MatchIdentifier(id) ==
    CASE id = "data.tar.xz"     -> {[slot |-> "data",    codec |-> "Xz"]}
      [] id = "data.tar.gz"     -> {[slot |-> "data",    codec |-> "Gz"]}
      [] id = "data.tar.zst"    -> {[slot |-> "data",    codec |-> "Zstd"]}
      [] id = "control.tar.xz"  -> {[slot |-> "control", codec |-> "Xz"]}
      [] id = "control.tar.gz"  -> {[slot |-> "control", codec |-> "Gz"]}
      [] id = "control.tar.zst" -> {[slot |-> "control", codec |-> "Zstd"]}
      [] OTHER                  -> {}

(***************************************************************************)
(* The ar container: `pad` members named debian-binary followed by the     *)
(* members of `tail`.  Positions are zero-based.                           *)
(***************************************************************************)
CLen(c) == c.pad + Len(c.tail)

MemberAt(c, i) == IF i < c.pad THEN "debian-binary" ELSE c.tail[i - c.pad + 1]

\* The results archive.next_entry() yields: Ok entries, and possibly one
\* Err, after which the reader yields no more.
TailsUpTo(n) ==
    UNION {[1..k -> Identifiers] : k \in 0..n}
    \cup UNION {{Append(t, ERR) : t \in [1..(k-1) -> Identifiers]} : k \in 1..n}

\* The member lists put behind a run of about 2^8 other members.
BigTailsUpTo(n) ==
    LET ids == {"data.tar.gz", "control.tar.xz", "debian-binary"}
    IN  {t \in TailsUpTo(n) : \A k \in 1..Len(t) : t[k] \in ids}

Containers ==
    {[pad |-> p, tail |-> t] : p \in 0..MaxPad, t \in TailsUpTo(MaxTail)}
    \cup {[pad |-> p, tail |-> t] :
             p \in (U8Max - 1)..(U8Max + 1), t \in BigTailsUpTo(MaxBigTail)}

(***************************************************************************)
(* io::Error values.                                                       *)
(***************************************************************************)
IoError(kind, msg) == [kind |-> kind, msg |-> msg]

NoError == IoError("", <<>>)

(***************************************************************************)
(* Archive::new.                                                           *)
(***************************************************************************)
\* entry_id += 1 on the u8 counter.  With overflow checks (a debug build)
\* the addition panics at 255; without them (a release build) it wraps.
EntryIdPlusOne(entry_id, checks) ==
    IF entry_id + 1 > U8Max
    THEN IF checks THEN {} ELSE {(entry_id + 1) % (U8Max + 1)}
    ELSE {entry_id + 1}

\* ScanStep without the early break: the scan goes on past the position at
\* which both slots are filled.
ScanStepNoBreak(c, i, st, checks) ==
    IF st.status # "scan" THEN st
    ELSE
    LET m     == MemberAt(c, i)
        sel   == IF m = ERR THEN {} ELSE MatchIdentifier(m)
        data2 == IF \E s \in sel : s.slot = "data"
                 THEN {<<st.entry_id, (CHOOSE s \in sel : TRUE).codec>>}
                 ELSE st.data
        ctl2  == IF \E s \in sel : s.slot = "control"
                 THEN {<<st.entry_id, (CHOOSE s \in sel : TRUE).codec>>}
                 ELSE st.control
        next  == EntryIdPlusOne(st.entry_id, checks)
    IN  IF next = {}
        THEN [status |-> "panic", entry_id |-> st.entry_id,
              data |-> data2, control |-> ctl2]
        ELSE [status |-> "scan", entry_id |-> CHOOSE n \in next : TRUE,
              data |-> data2, control |-> ctl2]

\* One turn of the while-let loop, on the entry at position i.  The state
\* of the loop is [status, entry_id, data, control]; status is "scan" while
\* the loop runs, "break" after its break, "panic" after an overflow panic.
ScanStep(c, i, st, checks) ==
    IF st.status # "scan" THEN st
    ELSE
    LET m     == MemberAt(c, i)
        sel   == IF m = ERR THEN {} ELSE MatchIdentifier(m)
        data2 == IF \E s \in sel : s.slot = "data"
                 THEN {<<st.entry_id, (CHOOSE s \in sel : TRUE).codec>>}
                 ELSE st.data
        ctl2  == IF \E s \in sel : s.slot = "control"
                 THEN {<<st.entry_id, (CHOOSE s \in sel : TRUE).codec>>}
                 ELSE st.control
        next  == EntryIdPlusOne(st.entry_id, checks)
    IN  IF sel # {} /\ data2 # {} /\ ctl2 # {}
        THEN [status |-> "break", entry_id |-> st.entry_id,
              data |-> data2, control |-> ctl2]
        ELSE IF next = {}
        THEN [status |-> "panic", entry_id |-> st.entry_id,
              data |-> data2, control |-> ctl2]
        ELSE [status |-> "scan", entry_id |-> CHOOSE n \in next : TRUE,
              data |-> data2, control |-> ctl2]

\* The turns of the loop on the entries at positions lo .. hi - 1, in order
\* (the range is halved to keep the evaluation shallow; the loop is over
\* once its status is no longer "scan").
RECURSIVE ScanRange(_, _, _, _, _)
ScanRange(c, lo, hi, st, checks) ==
    IF lo >= hi \/ st.status # "scan" THEN st
    ELSE IF hi = lo + 1 THEN ScanStep(c, lo, st, checks)
    ELSE LET mid  == (lo + hi) \div 2
             left == ScanRange(c, lo, mid, st, checks)
         IN  IF left.status # "scan" THEN left
             ELSE ScanRange(c, mid, hi, left, checks)

\* The whole loop: until next_entry() yields None.
Scan(c, checks) ==
    ScanRange(c, 0, CLen(c),
              [status |-> "scan", entry_id |-> 0, data |-> {}, control |-> {}],
              checks)

DataNotFound(p) ==
    IoError("InvalidData", <<"data archive not found in ", p>>)

ControlNotFound(p) ==
    IoError("InvalidData", <<"control archive not found in ", p>>)

\* The result of Archive::new(p): tag is "Ok" (with the handle), "Err" (with
\* the error) or "Panic" (the process aborted; nothing is returned).
NewOutcome(p, canOpen, c, checks) ==
    IF ~canOpen
    THEN [tag |-> "Err", err |-> IoError("NotFound", <<"open ", p>>), handle |-> {}]
    ELSE
    LET scan == Scan(c, checks)
    IN  IF scan.status = "panic"
        THEN [tag |-> "Panic", err |-> NoError, handle |-> {}]
        ELSE IF scan.data = {}
        THEN [tag |-> "Err", err |-> DataNotFound(p), handle |-> {}]
        ELSE IF scan.control = {}
        THEN [tag |-> "Err", err |-> ControlNotFound(p), handle |-> {}]
        ELSE [tag |-> "Ok", err |-> NoError,
              handle |-> {[path    |-> p,
                           control |-> CHOOSE x \in scan.control : TRUE,
                           data    |-> CHOOSE x \in scan.data : TRUE]}]

NotCalled == [tag |-> "none", err |-> NoError, handle |-> {}]

(***************************************************************************)
(* Strings the code inspects, as tuples of characters.                     *)
(***************************************************************************)
\* 'control'
PathControl ==
    <<"c", "o", "n", "t", "r", "o", "l">>

\* './control'
PathDotControl ==
    <<".", "/", "c", "o", "n", "t", "r", "o", "l">>

\* './/control'
PathDotSlashSlashControl ==
    <<".", "/", "/", "c", "o", "n", "t", "r", "o", "l">>

\* 'control/'
PathControlSlash ==
    <<"c", "o", "n", "t", "r", "o", "l", "/">>

\* './md5sums'
PathMd5sums ==
    <<".", "/", "m", "d", "5", "s", "u", "m", "s">>

\* './'
PathDot ==
    <<".", "/">>

\* 'Description'
KeyDescription ==
    <<"D", "e", "s", "c", "r", "i", "p", "t", "i", "o", "n">>

\* 'Package: foo'
LinePackage ==
    <<"P", "a", "c", "k", "a", "g", "e", ":", " ", "f", "o", "o">>

\* 'Version: 1.0'
LineVersion ==
    <<"V", "e", "r", "s", "i", "o", "n", ":", " ", "1", ".", "0">>

\* 'Description: short summary'
LineDescription ==
    <<"D", "e", "s", "c", "r", "i", "p", "t", "i", "o", "n", ":", " ",
      "s", "h", "o", "r", "t", " ", "s", "u", "m", "m", "a", "r", "y">>

\* ' a continuation line'
LineContinuation ==
    <<" ", "a", " ", "c", "o", "n", "t", "i", "n", "u", "a", "t", "i",
      "o", "n", " ", "l", "i", "n", "e">>

\* ' another continuation line'
LineContinuation2 ==
    <<" ", "a", "n", "o", "t", "h", "e", "r", " ", "c", "o", "n", "t",
      "i", "n", "u", "a", "t", "i", "o", "n", " ", "l", "i", "n", "e">>

\* 'Maintainer: a@b.com'
LineMaintainer ==
    <<"M", "a", "i", "n", "t", "a", "i", "n", "e", "r", ":", " ", "a",
      "@", "b", ".", "c", "o", "m">>

\* 'Description:  again \t'
LineDescriptionAgain ==
    <<"D", "e", "s", "c", "r", "i", "p", "t", "i", "o", "n", ":", " ",
      " ", "a", "g", "a", "i", "n", " ", "\t">>

\* ' Homepage: x'
LineSpaceColon ==
    <<" ", "H", "o", "m", "e", "p", "a", "g", "e", ":", " ", "x">>

\* ''
LineBlank ==
    <<>>

\* 'short summary\n a continuation line\n another continuation line'
ExampleDescriptionValue ==
    <<"s", "h", "o", "r", "t", " ", "s", "u", "m", "m", "a", "r", "y",
      "\n", " ", "a", " ", "c", "o", "n", "t", "i", "n", "u", "a", "t",
      "i", "o", "n", " ", "l", "i", "n", "e", "\n", " ", "a", "n", "o",
      "t", "h", "e", "r", " ", "c", "o", "n", "t", "i", "n", "u", "a",
      "t", "i", "o", "n", " ", "l", "i", "n", "e">>

\* 'a@b.com'
ExampleMaintainerValue ==
    <<"a", "@", "b", ".", "c", "o", "m">>

\* A line for which BufRead::lines() yields Err (bytes that are not UTF-8).
BadLine == <<"<invalid utf-8>">>

(***************************************************************************)
(* The inner tar members.  A tar entry is [bad, path, dir, lines]: `bad`   *)
(* is an item of Entries for which the tar reader yields Err; `dir` is     *)
(* header().entry_type().is_dir(); `lines` is what BufRead::lines() yields *)
(* for its bytes.  A member's bytes are [valid, entries]: `valid` says     *)
(* whether they are a stream of the codec the identifier names.            *)
(***************************************************************************)
TarEntry(p, isDir, lines) ==
    [bad |-> FALSE, path |-> p, dir |-> isDir, lines |-> lines]

BadEntry == [bad |-> TRUE, path |-> <<>>, dir |-> FALSE, lines |-> <<>>]

TarStream(valid, entries) == [valid |-> valid, entries |-> entries]

(***************************************************************************)
(* Archive::open_archive.                                                  *)
(***************************************************************************)
\* The bytes of the member at ordinal id: the data or control stream when
\* its identifier is a recognised one, and no compressed stream otherwise.
MemberBytes(id) ==
    LET sel == MatchIdentifier(MemberAt(container, id))
    IN  IF sel = {} THEN {}
        ELSE LET s == CHOOSE x \in sel : TRUE
             IN  {[codec  |-> s.codec,
                   stream |-> IF s.slot = "data" THEN dataTar ELSE controlTar]}

\* Whether the member at ordinal id decodes under `codec`.
Decodes(id, codec) ==
    \E b \in MemberBytes(id) : b.codec = codec /\ b.stream.valid

\* open_archive up to `func`: the entries the tar reader will yield from
\* the decompressed reader, or the io::Error of the `?` that returned.
\*   - File::open fails when the file cannot be opened;
\*   - jump_to_entry fails when the ordinal is past the last member;
\*   - zstd::Decoder::new and GzDecoder::new read the frame header and
\*     fail at construction; XzDecoder::new cannot fail, and the reader it
\*     returns fails at the first read instead.
OpenArchive(h, id, codec) ==
    IF ~openable
    THEN [tag |-> "Err", entries |-> <<>>,
          err |-> IoError("NotFound", <<"open ", h.path>>)]
    ELSE IF id >= CLen(container) \/ MemberAt(container, id) = ERR
    THEN [tag |-> "Err", entries |-> <<>>,
          err |-> IoError("InvalidInput", <<"Entry index out of bounds">>)]
    ELSE IF Decodes(id, codec)
    THEN [tag |-> "Ok", err |-> NoError,
          entries |-> (CHOOSE b \in MemberBytes(id) : TRUE).stream.entries]
    ELSE CASE codec = "Xz"   -> [tag |-> "Ok", err |-> NoError,
                                 entries |-> <<BadEntry>>]
           [] codec = "Gz"   -> [tag |-> "Err", entries |-> <<>>,
                                 err |-> IoError("InvalidData", <<"gzip header">>)]
           [] codec = "Zstd" -> [tag |-> "Err", entries |-> <<>>,
                                 err |-> IoError("Other", <<"zstd frame">>)]

\* The io::Error of a tar entry that cannot be read.
TarError == IoError("Other", <<"tar">>)

(***************************************************************************)
(* Results of the read operations: [tag, err, inner, visited, map,         *)
(* inserts].  `inner` is the error before the public operation's map_err;  *)
(* `visited` lists the positions (in the tar stream) of the entries handed *)
(* to the visitor or unpacked; `inserts` lists the control_data.insert     *)
(* calls in order.                                                         *)
(***************************************************************************)
Result(tag, err, inner, visited, map, inserts) ==
    [tag |-> tag, err |-> err, inner |-> inner, visited |-> visited,
     map |-> map, inserts |-> inserts]

OkResult(visited) == Result("Ok", NoError, NoError, visited, {}, <<>>)

ErrResult(err, visited) == Result("Err", err, err, visited, {}, <<>>)

(***************************************************************************)
(* Archive::iter_entries.  A visitor is [failAt, kind]: its failAt-th call *)
(* returns an io::Error of that kind (failAt = 0: it never fails).         *)
(***************************************************************************)
VisitorError(v) == IoError(v.kind, <<"visitor">>)

\* WalkFrom without the is_dir() test: directories reach the visitor too.
RECURSIVE WalkFromVisitsDirectories(_, _, _, _)
WalkFromVisitsDirectories(entries, i, v, visited) ==
    IF i > Len(entries) THEN OkResult(visited)
    ELSE IF entries[i].bad THEN ErrResult(TarError, visited)
    ELSE LET visited2 == Append(visited, i)
         IN  IF v.failAt = Len(visited2)
             THEN ErrResult(VisitorError(v), visited2)
             ELSE WalkFromVisitsDirectories(entries, i + 1, v, visited2)

\* The for loop over tar::Archive::new(reader).entries() from item i on.
RECURSIVE WalkFrom(_, _, _, _)
WalkFrom(entries, i, v, visited) ==
    IF i > Len(entries) THEN OkResult(visited)
    ELSE IF entries[i].bad THEN ErrResult(TarError, visited)
    ELSE IF entries[i].dir THEN WalkFrom(entries, i + 1, v, visited)
    ELSE LET visited2 == Append(visited, i)
         IN  IF v.failAt = Len(visited2)
             THEN ErrResult(VisitorError(v), visited2)
             ELSE WalkFrom(entries, i + 1, v, visited2)

IterEntries(h, v, id, codec) ==
    LET o == OpenArchive(h, id, codec)
    IN  IF o.tag = "Err" THEN ErrResult(o.err, <<>>)
        ELSE WalkFrom(o.entries, 1, v, <<>>)

InnerData(h, v) == IterEntries(h, v, h.data[1], h.data[2])

InnerControl(h, v) == IterEntries(h, v, h.control[1], h.control[2])

(***************************************************************************)
(* The public operations' map_err.                                         *)
(***************************************************************************)
\* format!("error reading {member} archive within {}: {}", path, why)
ReadingContext(member, p) ==
    <<"error reading ", member, " archive within ", p, ": ">>

\* MapErr building the new error with why.kind() in place of Other.
MapErrKeepsKind(r, member, p) ==
    IF r.tag = "Err"
    THEN [r EXCEPT !.err = IoError(r.inner.kind,
                                   ReadingContext(member, p) \o r.inner.msg)]
    ELSE r

\* .map_err(|why| io::Error::new(io::ErrorKind::Other, format!(...)))
MapErr(r, member, p) ==
    IF r.tag = "Err"
    THEN [r EXCEPT !.err = IoError("Other", ReadingContext(member, p) \o r.inner.msg)]
    ELSE r

ControlOutcome(h, v) == MapErr(InnerControl(h, v), "control", h.path)

DataOutcome(h, v) == MapErr(InnerData(h, v), "data", h.path)

(***************************************************************************)
(* Archive::extract.  The destination is [exists, creatable].              *)
(***************************************************************************)
\* tar::Archive::unpack: every entry, directories included, in order.
RECURSIVE UnpackFrom(_, _, _)
UnpackFrom(entries, i, unpacked) ==
    IF i > Len(entries) THEN OkResult(unpacked)
    ELSE IF entries[i].bad THEN ErrResult(TarError, unpacked)
    ELSE UnpackFrom(entries, i + 1, Append(unpacked, i))

CreateDirError == IoError("PermissionDenied", <<"create_dir_all">>)

ExtractOutcome(h, d, id, codec) ==
    IF ~d.exists /\ ~d.creatable THEN ErrResult(CreateDirError, <<>>)
    ELSE LET o == OpenArchive(h, id, codec)
         IN  IF o.tag = "Err" THEN ErrResult(o.err, <<>>)
             ELSE UnpackFrom(o.entries, 1, <<>>)

\* The destination after extract: created when it was absent and creatable.
ExtractDest(d) == [d EXCEPT !.exists = d.exists \/ d.creatable]

ControlExtractOutcome(h, d) == ExtractOutcome(h, d, h.control[1], h.control[2])

DataExtractOutcome(h, d) == ExtractOutcome(h, d, h.data[1], h.data[2])

(***************************************************************************)
(* Path comparison.  `path == Path::new("./control")` is Path's PartialEq, *)
(* which compares the two paths' components(): separators are dropped, so  *)
(* are empty segments (repeated or trailing separators) and every `.`      *)
(* segment except a leading one.                                           *)
(***************************************************************************)
\* The segments of p between separators, from character i on.
RECURSIVE SegmentsFrom(_, _, _, _)
SegmentsFrom(p, i, cur, acc) ==
    IF i > Len(p) THEN Append(acc, cur)
    ELSE IF p[i] = "/" THEN SegmentsFrom(p, i + 1, <<>>, Append(acc, cur))
    ELSE SegmentsFrom(p, i + 1, Append(cur, p[i]), acc)

Components(p) ==
    LET segs     == SegmentsFrom(p, 1, <<>>, <<>>)
        hasRoot  == Len(p) > 0 /\ p[1] = "/"
        keep(k)  == /\ segs[k] # <<>>
                    /\ (segs[k] = <<".">> => (k = 1 /\ ~hasRoot))
        kept     == {k \in 1..Len(segs) : keep(k)}
        RECURSIVE Collect(_)
        Collect(k) == IF k > Len(segs) THEN <<>>
                      ELSE IF k \in kept THEN <<segs[k]>> \o Collect(k + 1)
                      ELSE Collect(k + 1)
    IN  (IF hasRoot THEN <<<<"/">>>> ELSE <<>>) \o Collect(1)

PathEq(a, b) == Components(a) = Components(b)

\* IsControlPath accepting every path: the entry's name is not looked at.
IsControlPathAny(p) == TRUE

\* path == Path::new("./control") || path == Path::new("control")
IsControlPath(p) == PathEq(p, PathDotControl) \/ PathEq(p, PathControl)

(***************************************************************************)
(* The control-file parser of Archive::inner_control_map.                  *)
(***************************************************************************)
\* line.find(':'): the position of the first colon, 0 for None.
FindColon(line) ==
    LET at == {i \in 1..Len(line) : line[i] = ":"}
    IN  IF at = {} THEN 0 ELSE CHOOSE i \in at : \A j \in at : i <= j

IsWhitespace(ch) == ch \in {" ", "\t", "\n", "\r"}

\* str::trim
Trim(s) ==
    LET solid == {i \in 1..Len(s) : ~IsWhitespace(s[i])}
    IN  IF solid = {} THEN <<>>
        ELSE SubSeq(s, CHOOSE i \in solid : \A j \in solid : i <= j,
                       CHOOSE i \in solid : \A j \in solid : i >= j)

\* next_line.starts_with(' ')
StartsWithSpace(line) == Len(line) > 0 /\ line[1] = " "

\* BTreeMap::insert on a map kept as a set of <<key, value>> pairs.
MapInsert(map, key, value) == {kv \in map : kv[1] # key} \cup {<<key, value>>}

MapKeys(map) == {kv[1] : kv \in map}

MapGet(map, key) == (CHOOSE kv \in map : kv[1] = key)[2]

\* ContinuationFrom trimming each continuation line before appending it.
RECURSIVE ContinuationFromTrims(_, _, _)
ContinuationFromTrims(lines, j, value) ==
    IF j > Len(lines) THEN [value |-> value, next |-> j]
    ELSE IF lines[j] = BadLine THEN [value |-> value, next |-> j]
    ELSE IF StartsWithSpace(lines[j])
    THEN ContinuationFromTrims(lines, j + 1, value \o <<"\n">> \o Trim(lines[j]))
    ELSE [value |-> value, next |-> j]

\* The inner `loop` on lines.peek(): [value, next], next being the first
\* line left for the outer loop.
RECURSIVE ContinuationFrom(_, _, _)
ContinuationFrom(lines, j, value) ==
    IF j > Len(lines) THEN [value |-> value, next |-> j]
    ELSE IF lines[j] = BadLine THEN [value |-> value, next |-> j]
    ELSE IF StartsWithSpace(lines[j])
    THEN ContinuationFrom(lines, j + 1, value \o <<"\n">> \o lines[j])
    ELSE [value |-> value, next |-> j]

\* The io::Error of a line that is not UTF-8.
Utf8Error == IoError("InvalidData", <<"stream did not contain valid UTF-8">>)

\* ParseFrom folding after every Description line: description_unset is
\* never cleared.
RECURSIVE ParseFromRefolds(_, _, _, _, _, _)
ParseFromRefolds(k, lines, i, description_unset, map, inserts) ==
    IF i > Len(lines)
    THEN [tag |-> "Ok", err |-> NoError, map |-> map, inserts |-> inserts]
    ELSE IF lines[i] = BadLine
    THEN [tag |-> "Err", err |-> Utf8Error, map |-> map, inserts |-> inserts]
    ELSE
    LET line == lines[i]
        pos  == FindColon(line)
    IN  IF pos = 0
        THEN ParseFromRefolds(k, lines, i + 1, description_unset, map, inserts)
        ELSE
        LET key   == SubSeq(line, 1, pos - 1)
            value == Trim(SubSeq(line, pos + 1, Len(line)))
            fold  == key = KeyDescription
            cont  == IF fold THEN ContinuationFrom(lines, i + 1, value)
                     ELSE [value |-> value, next |-> i + 1]
            ins   == [entry |-> k, line |-> i, key |-> key, value |-> cont.value]
        IN  ParseFromRefolds(k, lines, cont.next, description_unset,
                             MapInsert(map, key, cont.value), Append(inserts, ins))

\* The `while let Some(line) = lines.next()` loop of entry k from line i on:
\* [tag, err, map, inserts].
RECURSIVE ParseFrom(_, _, _, _, _, _)
ParseFrom(k, lines, i, description_unset, map, inserts) ==
    IF i > Len(lines)
    THEN [tag |-> "Ok", err |-> NoError, map |-> map, inserts |-> inserts]
    ELSE IF lines[i] = BadLine
    THEN [tag |-> "Err", err |-> Utf8Error, map |-> map, inserts |-> inserts]
    ELSE
    LET line == lines[i]
        pos  == FindColon(line)
    IN  IF pos = 0
        THEN ParseFrom(k, lines, i + 1, description_unset, map, inserts)
        ELSE
        LET key   == SubSeq(line, 1, pos - 1)
            value == Trim(SubSeq(line, pos + 1, Len(line)))
            fold  == description_unset /\ key = KeyDescription
            cont  == IF fold THEN ContinuationFrom(lines, i + 1, value)
                     ELSE [value |-> value, next |-> i + 1]
            ins   == [entry |-> k, line |-> i, key |-> key, value |-> cont.value]
        IN  ParseFrom(k, lines, cont.next, description_unset /\ ~fold,
                      MapInsert(map, key, cont.value), Append(inserts, ins))

\* The for loop over the control member's tar entries from item k on.
RECURSIVE MapFrom(_, _, _, _)
MapFrom(entries, k, map, inserts) ==
    IF k > Len(entries) THEN Result("Ok", NoError, NoError, <<>>, map, inserts)
    ELSE IF entries[k].bad THEN ErrResult(TarError, <<>>)
    ELSE IF IsControlPath(entries[k].path)
    THEN LET p == ParseFrom(k, entries[k].lines, 1, TRUE, map, inserts)
         IN  IF p.tag = "Err" THEN ErrResult(p.err, <<>>)
             ELSE MapFrom(entries, k + 1, p.map, p.inserts)
    ELSE MapFrom(entries, k + 1, map, inserts)

InnerControlMap(h) ==
    LET o == OpenArchive(h, h.control[1], h.control[2])
    IN  IF o.tag = "Err" THEN ErrResult(o.err, <<>>)
        ELSE MapFrom(o.entries, 1, {}, <<>>)

ControlMapOutcome(h) == MapErr(InnerControlMap(h), "control", h.path)

(***************************************************************************)
(* More bounds, and the inputs of the model.                               *)
(***************************************************************************)
\* Longest tar stream of the full machine.
MaxEntries == 3
\* Latest call at which a visitor of the model fails.
MaxCalls == 2
\* Longest control file of the parser's specification.
MaxLines == 4
\* Longest tar stream of the parser's specification.
MaxMapEntries == 2

Paths == {"a.deb", "b.deb"}

SeqsUpTo(S, n) == UNION {[1..k -> S] : k \in 0..n}

NeverFails == [failAt |-> 0, kind |-> ""]

VisitorKinds == {"NotFound", "Other"}

Visitors ==
    {NeverFails} \cup {[failAt |-> k, kind |-> kd] : k \in 1..MaxCalls, kd \in VisitorKinds}

\* Entries of the tar streams of the full machine.
EntryPool ==
    {TarEntry(PathDot, TRUE, <<>>),
     TarEntry(PathMd5sums, FALSE, <<>>),
     BadEntry}

Streams ==
    {TarStream(FALSE, <<>>)}
    \cup {TarStream(TRUE, es) : es \in SeqsUpTo(EntryPool, MaxEntries)}

PlainStream == TarStream(TRUE, <<TarEntry(PathDot, TRUE, <<>>),
                                 TarEntry(PathDotControl, FALSE, <<LinePackage>>)>>)

\* Containers of the full machine: the two members in either order and
\* under each codec, and one whose members lie past position 255.
MainContainers ==
    {[pad |-> 1, tail |-> <<"control.tar.gz", "data.tar.xz">>],
     [pad |-> 0, tail |-> <<"data.tar.zst", "control.tar.xz">>],
     [pad |-> 0, tail |-> <<"control.tar.zst", "debian-binary", "data.tar.gz">>],
     [pad |-> U8Max + 1, tail |-> <<"data.tar.gz", "control.tar.gz">>]}

Destinations ==
    {[exists |-> FALSE, creatable |-> TRUE],
     [exists |-> FALSE, creatable |-> FALSE],
     [exists |-> TRUE,  creatable |-> TRUE]}

\* The control files of the parser's specification.
LinePool ==
    {LineDescription, LineDescriptionAgain, LineContinuation, LineSpaceColon,
     LineBlank, LineMaintainer, BadLine}

ExampleText ==
    <<LinePackage, LineVersion, LineDescription, LineContinuation,
      LineContinuation2, LineMaintainer>>

Texts == SeqsUpTo(LinePool, MaxLines) \cup {ExampleText}

ControlPaths ==
    {PathControl, PathDotControl, PathDotSlashSlashControl, PathControlSlash}

\* Entries of the tar streams that hold several entries.
MapEntryPool ==
    {TarEntry(PathDot, TRUE, <<>>),
     TarEntry(PathMd5sums, FALSE, <<LinePackage>>),
     TarEntry(PathDotControl, FALSE, <<LineDescription, LineContinuation>>),
     TarEntry(PathControl, FALSE, <<LineDescriptionAgain, LineSpaceColon>>),
     BadEntry}

MapStreams ==
    {TarStream(TRUE, <<TarEntry(p, FALSE, t)>>) : p \in ControlPaths, t \in Texts}
    \cup {TarStream(TRUE, es) : es \in SeqsUpTo(MapEntryPool, MaxMapEntries)}

(***************************************************************************)
(* The state machine.                                                      *)
(***************************************************************************)
NoCall == [op |-> "none", visitor |-> NeverFails, res |-> OkResult(<<>>)]

Call(op, v, res) == [op |-> op, visitor |-> v, res |-> res]

TheHandle == CHOOSE h \in handle : TRUE

\* HandleAfterRead for an operation that leaves the ordinal it last
\* jumped to, the control member's, in the data slot.
HandleAfterReadMovesSlot(h) ==
    {[x EXCEPT !.data = <<x.control[1], x.data[2]>>] : x \in h}

\* The five read operations take &self: the handle after the call.
HandleAfterRead(h) == h

\* The member a read operation reads.
MemberOf(op) ==
    CASE op \in {"control", "control_extract", "control_map"} -> "control"
      [] op \in {"data", "data_extract"}                       -> "data"
      [] OTHER                                                 -> "none"

\* How a call of op with visitor v relates to the call before it.
RelationTo(op, v) ==
    CASE last.op = "none"                        -> "first"
      [] last.op = op /\ last.visitor = v        -> "rerun"
      [] /\ last.res.tag = "Err"
         /\ MemberOf(last.op) # MemberOf(op)     -> "after failure on other member"
      [] OTHER                                   -> "other"

\* A read operation returns: the call is recorded, the handle is as the
\* operation leaves it.
Returns(op, v, res) ==
    /\ last' = Call(op, v, res)
    /\ after' = RelationTo(op, v)
    /\ handle' = HandleAfterRead(handle)

InitWith(P, O, C, S, D) ==
    /\ path \in P
    /\ openable \in O
    /\ container \in C
    /\ \E s \in S : controlTar = s[1] /\ dataTar = s[2]
    /\ dest \in D
    /\ handle = {}
    /\ newResult = NotCalled
    /\ last = NoCall
    /\ after = "first"

\* Archive::new(path)
New ==
    /\ newResult.tag = "none"
    /\ \E checks \in BOOLEAN :
          LET r == NewOutcome(path, openable, container, checks)
          IN  newResult' = r /\ handle' = r.handle
    /\ UNCHANGED <<path, openable, container, controlTar, dataTar, dest, last, after>>

\* archive.control(action)
Control ==
    /\ handle # {}
    /\ \E v \in Visitors : Returns("control", v, ControlOutcome(TheHandle, v))
    /\ UNCHANGED <<path, openable, container, controlTar, dataTar, dest, newResult>>

\* archive.data(action)
Data ==
    /\ handle # {}
    /\ \E v \in Visitors : Returns("data", v, DataOutcome(TheHandle, v))
    /\ UNCHANGED <<path, openable, container, controlTar, dataTar, dest, newResult>>

\* archive.control_extract(destination)
ControlExtract ==
    /\ handle # {}
    /\ Returns("control_extract", NeverFails, ControlExtractOutcome(TheHandle, dest))
    /\ dest' = ExtractDest(dest)
    /\ UNCHANGED <<path, openable, container, controlTar, dataTar, newResult>>

\* archive.data_extract(destination)
DataExtract ==
    /\ handle # {}
    /\ Returns("data_extract", NeverFails, DataExtractOutcome(TheHandle, dest))
    /\ dest' = ExtractDest(dest)
    /\ UNCHANGED <<path, openable, container, controlTar, dataTar, newResult>>

\* archive.control_map()
ControlMap ==
    /\ handle # {}
    /\ Returns("control_map", NeverFails, ControlMapOutcome(TheHandle))
    /\ UNCHANGED <<path, openable, container, controlTar, dataTar, dest, newResult>>

\* The full machine: a handle is constructed, then read in any order.
Init ==
    InitWith({"a.deb"}, BOOLEAN, MainContainers,
             {<<s, PlainStream>> : s \in Streams} \cup {<<PlainStream, s>> : s \in Streams},
             Destinations)

Next == New \/ Control \/ Data \/ ControlExtract \/ DataExtract \/ ControlMap

Spec == Init /\ [][Next]_vars

\* Construction alone, over every container of the model.
InitNew ==
    InitWith(Paths, BOOLEAN, Containers, {<<PlainStream, PlainStream>>},
             {[exists |-> TRUE, creatable |-> TRUE]})

NextNew == New

SpecNew == InitNew /\ [][NextNew]_vars

\* The control-file parser, over every control file of the model.
InitMap ==
    InitWith({"a.deb"}, {TRUE},
             {[pad |-> 1, tail |-> <<"control.tar.gz", "data.tar.xz">>]},
             {<<s, PlainStream>> : s \in MapStreams},
             {[exists |-> TRUE, creatable |-> TRUE]})

NextMap == New \/ ControlMap

SpecMap == InitMap /\ [][NextMap]_vars

(***************************************************************************)
(* Properties of Archive::new (checked under SpecNew).                     *)
(***************************************************************************)
DataIds == {"data.tar.gz", "data.tar.xz", "data.tar.zst"}

ControlIds == {"control.tar.gz", "control.tar.xz", "control.tar.zst"}

\* The codec a recognised identifier names.
NamedCodec(id) ==
    CASE id \in {"data.tar.gz", "control.tar.gz"}   -> "Gz"
      [] id \in {"data.tar.xz", "control.tar.xz"}   -> "Xz"
      [] id \in {"data.tar.zst", "control.tar.zst"} -> "Zstd"

PositionsOf(c, ids) == {i \in 0..(CLen(c) - 1) : MemberAt(c, i) \in ids}

SetMin(S) == CHOOSE x \in S : \A y \in S : x <= y

SetMax(S) == CHOOSE x \in S : \A y \in S : x >= y

\* The first position at which a data and a control member have been seen.
StopPosition(c) ==
    SetMin({i \in 0..(CLen(c) - 1) :
               /\ \E d \in PositionsOf(c, DataIds) : d <= i
               /\ \E k \in PositionsOf(c, ControlIds) : k <= i})

\* A slot <<ordinal, codec>> is the last member of its kind at or before
\* the stop position, with the codec its identifier names.
SlotIsRight(c, slot, ids) ==
    /\ slot[1] = SetMax({i \in PositionsOf(c, ids) : i <= StopPosition(c)})
    /\ MemberAt(c, slot[1]) \in ids
    /\ slot[2] = NamedCodec(MemberAt(c, slot[1]))

SlotsAreRight ==
    /\ PositionsOf(container, DataIds) # {}
    /\ PositionsOf(container, ControlIds) # {}
    /\ SlotIsRight(container, TheHandle.data, DataIds)
    /\ SlotIsRight(container, TheHandle.control, ControlIds)

NewReturned == newResult.tag # "none" /\ openable

\* C1: a container with no data member fails construction with the "data
\* archive not found" error naming the path; one with a data member and no
\* control member fails with the "control archive not found" error naming
\* the path; no handle is produced in either case.
C1_MissingMemberFails ==
    NewReturned =>
        /\ PositionsOf(container, DataIds) = {} =>
              /\ newResult.tag = "Err"
              /\ newResult.err.msg = <<"data archive not found in ", path>>
              /\ handle = {}
        /\ (PositionsOf(container, DataIds) # {}
            /\ PositionsOf(container, ControlIds) = {}) =>
              /\ newResult.tag = "Err"
              /\ newResult.err.msg = <<"control archive not found in ", path>>
              /\ handle = {}

\* C2: on a container of at most 256 members, when construction succeeds
\* each slot holds the position and the codec of the last member of its
\* kind at or before the first position at which both kinds were seen.
C2_SlotsCorrectUpTo256 ==
    (newResult.tag = "Ok" /\ CLen(container) <= U8Max + 1) => SlotsAreRight

\* Construction succeeds on a container of exactly 256 members whose last
\* two are the data and the control member.
C2_Witness ==
    /\ newResult.tag = "Ok"
    /\ CLen(container) = U8Max + 1
    /\ TheHandle.data = <<U8Max - 1, "Gz">>
    /\ TheHandle.control = <<U8Max, "Xz">>

\* C10: for a container of any length construction never aborts and never
\* records an ordinal other than the member's position.
C10_OrdinalNeverWraps ==
    NewReturned =>
        /\ newResult.tag # "Panic"
        /\ newResult.tag = "Ok" => SlotsAreRight

(***************************************************************************)
(* Properties of the read operations (checked under Spec).                 *)
(***************************************************************************)
\* The slot the latest operation read through.
LastSlot == IF MemberOf(last.op) = "control" THEN TheHandle.control ELSE TheHandle.data

\* The tar entries behind the latest operation's slot, when its stream opens.
LastStreamOpens == Decodes(LastSlot[1], LastSlot[2])

LastEntries == (CHOOSE b \in MemberBytes(LastSlot[1]) : TRUE).stream.entries

WellFormed(entries) == \A k \in 1..Len(entries) : ~entries[k].bad

\* The positions of the entries that are not directories, in stream order.
NonDirectories(entries) ==
    SelectSeq([k \in 1..Len(entries) |-> k], LAMBDA k : ~entries[k].dir)

\* C5: when the member's stream opens and its tar stream is well formed,
\* control / data hand the visitor exactly the non-directory entries, in
\* stream order; if the visitor fails, nothing after the failing entry is
\* visited and the operation fails, otherwise it succeeds after the last.
C5_VisitsNonDirectoriesInOrder ==
    (last.op \in {"control", "data"} /\ LastStreamOpens /\ WellFormed(LastEntries)) =>
        LET files == NonDirectories(LastEntries)
            n     == last.visitor.failAt
        IN  IF n \in 1..Len(files)
            THEN last.res.tag = "Err" /\ last.res.visited = SubSeq(files, 1, n)
            ELSE last.res.tag = "Ok" /\ last.res.visited = files

\* data() over a stream that starts with a directory: the visitor failed on
\* the first file and a later file was never visited.
C5_Witness ==
    /\ last.op = "data" /\ LastStreamOpens /\ WellFormed(LastEntries)
    /\ Len(LastEntries) = 3 /\ LastEntries[1].dir
    /\ last.res.tag = "Err"
    /\ last.res.visited = <<2>>
    /\ Len(NonDirectories(LastEntries)) = 2

\* The number of times msg names the member and the path as map_err does.
ContextCount(msg, member, p) ==
    Cardinality({k \in 1..(Len(msg) - 3) : msg[k + 1] = member /\ msg[k + 3] = p})

\* C6: every error of control, data, control_extract and data_extract
\* names, exactly once, the source path and the member that failed.
C6_ErrorsNameMemberOnce ==
    (last.op \in {"control", "data", "control_extract", "data_extract"}
     /\ last.res.tag = "Err") =>
        ContextCount(last.res.err.msg, MemberOf(last.op), path) = 1

\* C7 as claimed: the error control, data or control_map returns has the
\* kind of the underlying failure.
C7_KindPreserved ==
    (last.op \in {"control", "data", "control_map"} /\ last.res.tag = "Err") =>
        last.res.err.kind = last.res.inner.kind

\* C7 as amended: the error control, data or control_map returns has kind
\* Other whatever the underlying kind; its message is the context followed
\* by the underlying error's message.
C7_KindBecomesOther ==
    (last.op \in {"control", "data", "control_map"} /\ last.res.tag = "Err") =>
        /\ last.res.err.kind = "Other"
        /\ ContextCount(last.res.err.msg, MemberOf(last.op), path) = 1
        /\ Len(last.res.err.msg) > Len(last.res.inner.msg)
        /\ SubSeq(last.res.err.msg,
                  Len(last.res.err.msg) - Len(last.res.inner.msg) + 1,
                  Len(last.res.err.msg)) = last.res.inner.msg

\* data() failed with a visitor's NotFound error.
C7_Witness ==
    /\ last.op = "data" /\ last.res.tag = "Err"
    /\ last.res.inner = [kind |-> "NotFound", msg |-> <<"visitor">>]

\* The result of op on the handle as Archive::new returned it.
FreshOutcome(op, v, d) ==
    LET h0 == CHOOSE h \in newResult.handle : TRUE
    IN  CASE op = "control"         -> ControlOutcome(h0, v)
          [] op = "data"            -> DataOutcome(h0, v)
          [] op = "control_extract" -> ControlExtractOutcome(h0, d)
          [] op = "data_extract"    -> DataExtractOutcome(h0, d)
          [] op = "control_map"     -> ControlMapOutcome(h0)

KeyMaintainer ==
    <<"M", "a", "i", "n", "t", "a", "i", "n", "e", "r">>

HasColon(line) == \E i \in 1..Len(line) : line[i] = ":"

FirstColon(line) == SetMin({i \in 1..Len(line) : line[i] = ":"})

\* The text of a line before its first colon, and after it.
KeyOf(line) == SubSeq(line, 1, FirstColon(line) - 1)

ValueOf(line) == SubSeq(line, FirstColon(line) + 1, Len(line))

\* The lines of a control file whose key is Description.
DescriptionLines(lines) ==
    {i \in 1..Len(lines) : HasColon(lines[i]) /\ KeyOf(lines[i]) = KeyDescription}

\* The last of the consecutive space-prefixed lines that follow line i
\* (i itself when there is none).
RunEnd(lines, i) ==
    SetMax({j \in i..Len(lines) : \A x \in (i + 1)..j : StartsWithSpace(lines[x])})

\* Lines a .. b, each after a newline.
RECURSIVE Joined(_, _, _)
Joined(lines, a, b) ==
    IF a > b THEN <<>> ELSE <<"\n">> \o lines[a] \o Joined(lines, a + 1, b)

\* control_map returned Ok: the tar entries it read.
MapReturnedOk == last.op = "control_map" /\ last.res.tag = "Ok"

\* The entries whose path has the components of `control` or `./control`.
ControlEntries ==
    {k \in 1..Len(LastEntries) :
        Components(LastEntries[k].path) \in {<<PathControl>>, <<<<".">>, PathControl>>}}

\* The insert calls made for line i of entry k.
InsertsAt(k, i) ==
    {last.res.inserts[n] : n \in {x \in 1..Len(last.res.inserts) :
                                    /\ last.res.inserts[x].entry = k
                                    /\ last.res.inserts[x].line = i}}

\* The one insert an ordinary line with a colon makes.
PlainInsert(k, i, line) ==
    [entry |-> k, line |-> i, key |-> KeyOf(line), value |-> Trim(ValueOf(line))]

\* C3: the value stored for a control file's first Description line is its
\* trimmed text after the colon followed by each of the consecutive
\* space-prefixed lines after it, each after a newline and with its leading
\* space; those lines are not inserted themselves, colon or not.  On the
\* example the map has 4 keys, Description is the folded text and
\* Maintainer is a@b.com.
C3_DescriptionContinuation ==
    MapReturnedOk =>
        /\ \A k \in ControlEntries :
              LET lines == LastEntries[k].lines
                  first == SetMin(DescriptionLines(lines))
                  end   == RunEnd(lines, first)
              IN  DescriptionLines(lines) # {} =>
                     /\ InsertsAt(k, first) =
                           {[entry |-> k, line |-> first, key |-> KeyDescription,
                             value |-> Trim(ValueOf(lines[first]))
                                          \o Joined(lines, first + 1, end)]}
                     /\ \A i \in (first + 1)..end : InsertsAt(k, i) = {}
        /\ (Len(LastEntries) = 1 /\ ControlEntries = {1}
            /\ LastEntries[1].lines = ExampleText) =>
              /\ Cardinality(MapKeys(last.res.map)) = 4
              /\ Cardinality(last.res.map) = 4
              /\ MapGet(last.res.map, KeyDescription) = ExampleDescriptionValue
              /\ MapGet(last.res.map, KeyMaintainer) = ExampleMaintainerValue

\* control_map on the example control file.
C3_Witness ==
    /\ MapReturnedOk
    /\ LastEntries = <<TarEntry(PathDotControl, FALSE, ExampleText)>>
    /\ MapGet(last.res.map, KeyDescription) = ExampleDescriptionValue

\* C4: every line after the first Description line's continuation lines is
\* processed as an ordinary line, a later Description line included: with a
\* colon it makes one insert of its key and its own trimmed value, without
\* a colon none; and the map of a control file with a later Description
\* line holds the last one's value for Description.
C4_LaterDescriptionIsPlain ==
    MapReturnedOk =>
        \A k \in ControlEntries :
            LET lines == LastEntries[k].lines
                descs == DescriptionLines(lines)
                first == SetMin(descs)
                end   == RunEnd(lines, first)
            IN  descs # {} =>
                   /\ \A i \in (end + 1)..Len(lines) :
                         InsertsAt(k, i) =
                            IF HasColon(lines[i]) THEN {PlainInsert(k, i, lines[i])}
                            ELSE {}
                   /\ (Cardinality(descs) > 1 /\ k = SetMax(ControlEntries)) =>
                         MapGet(last.res.map, KeyDescription) =
                            Trim(ValueOf(lines[SetMax(descs)]))

\* A control file with a second Description line followed by a
\* space-prefixed line with a colon.
C4_Witness ==
    /\ MapReturnedOk
    /\ Len(LastEntries) = 1 /\ ControlEntries = {1}
    /\ LastEntries[1].lines = <<LineDescription, LineDescriptionAgain, LineSpaceColon>>
    /\ MapGet(last.res.map, KeyDescription) = <<"a", "g", "a", "i", "n">>
    /\ Cardinality(last.res.map) = 2

MapStreamReadable ==
    last.op = "control_map" /\ LastStreamOpens /\ WellFormed(LastEntries)

\* C9 as claimed: when no entry of the control member's tar stream has the
\* path `control` or `./control`, character for character, control_map
\* returns Ok with an empty map.
C9_ExactPathOnly ==
    (MapStreamReadable
     /\ \A k \in 1..Len(LastEntries) :
           LastEntries[k].path \notin {PathControl, PathDotControl}) =>
        last.res.tag = "Ok" /\ last.res.map = {}

\* C9 as amended: when no entry's path has the components of `control` or
\* of `./control`, control_map returns Ok with an empty map.
C9_NoControlEntryEmptyMap ==
    (MapStreamReadable /\ ControlEntries = {}) =>
        last.res.tag = "Ok" /\ last.res.map = {}

\* control_map over a stream whose only file is md5sums, a file with a
\* `key: value` line.
C9_Witness ==
    /\ MapStreamReadable /\ ControlEntries = {}
    /\ \E k \in 1..Len(LastEntries) :
          /\ LastEntries[k].path = PathMd5sums
          /\ \E i \in 1..Len(LastEntries[k].lines) : HasColon(LastEntries[k].lines[i])
    /\ last.res.tag = "Ok" /\ last.res.map = {}

====
